---- MODULE Spec2Model ----
(***************************************************************************)
(* Hub Fuel Counter: the per-lane counting state machine of               *)
(* lib/fuel_counter (processLaneReading, calculateThresholds, resetLanes)  *)
(* and the firmware of src/main.cpp that drives it (initSensors,           *)
(* calibrateBaselines, updateLane, loop, onWsMessage).                     *)
(*                                                                         *)
(* Four specifications share the variables below:                          *)
(*   Spec      the firmware: setup(), then loop() polling every lane;      *)
(*   FairSpec  Spec with a clock that advances and samples that keep       *)
(*             arriving on every lane;                                     *)
(*   SpecLib   the library driven call by call on one Lane object, with    *)
(*             any distance, timestamp and lockout argument;               *)
(*   SpecCalc  calculateThresholds applied to inputs over the whole        *)
(*             uint16_t range.                                             *)
(***************************************************************************)
EXTENDS Integers, Sequences, FiniteSets

(***************************************************************************)
(* Integer widths and firmware configuration.                              *)
(***************************************************************************)
\* uint16_t holds 0 .. U16 - 1; arithmetic on it is reduced modulo U16.
U16 == 65536

\* 2^31 - 1.  uint32_t arithmetic is modulo 2^32 = 2 * I32Max + 2, a number
\* the model checker's integers cannot hold; comparisons on uint32_t
\* differences are rearranged so that every intermediate value fits.
I32Max == 2147483647

DETECTION_DELTA_MM == 80

CLEAR_HYSTERESIS_MM == 30

LOCKOUT_MS == 60

CALIB_SAMPLES == 20

(***************************************************************************)
(* Bounds of the model.                                                    *)
(***************************************************************************)
\* A lane's count never goes beyond MaxCount (the operations that could
\* raise it further are not taken).
MaxCount == 2

\* The number of lanes the firmware is instantiated with.  FC_NUM_LANES is 4;
\* every lane runs the same code on its own Lane, and resetLanes takes the
\* number of lanes as an argument.
NumLanes == 2

\* The clock: millis() advances in steps of TickMs, up to MaxNow.
TickMs == 30

MaxNow == 90

(***************************************************************************)
(* Lane, LaneState                                                         *)
(***************************************************************************)
IDLE == "IDLE"

BALL_PRESENT == "BALL_PRESENT"

LOCKOUT == "LOCKOUT"

LaneState == {IDLE, BALL_PRESENT, LOCKOUT}

\* A default-constructed Lane (the member initialisers of struct Lane).
NewLane ==
  [ baseline_mm     |-> 0,
    threshold_mm    |-> 0,
    clearThresh_mm  |-> 0,
    count           |-> 0,
    state           |-> IDLE,
    lockoutStart    |-> 0,
    sensorOk        |-> FALSE,
    lastDistance_mm |-> 0 ]

(***************************************************************************)
(* processLaneReading                                                      *)
(***************************************************************************)
\* now_ms - lane.lockoutStart >= lockout_ms, in uint32_t: the difference is
\* taken modulo 2^32.  When now_ms < start it wraps to
\* 2^32 - (start - now_ms), and 2^32 - k >= l  iff
\* (I32Max - k) + 1 >= (l - I32Max) - 1.
\* A variant that lets the lockout end at once.
LockoutElapsed_Always(now_ms, start, lockout_ms) == TRUE

LockoutElapsed(now_ms, start, lockout_ms) ==
  IF now_ms >= start
    THEN now_ms - start >= lockout_ms
    ELSE (I32Max - (start - now_ms)) + 1 >= (lockout_ms - I32Max) - 1

\* Variants of processLaneReading with one slip each, used to show that the
\* properties below depend on the code: the count and the true result moved
\* to the IDLE -> BALL_PRESENT transition (CountOnEntry), the distance
\* recorded before the health check (RecordFirst), and non-strict threshold
\* comparisons (NonStrict).
ProcessLaneReading_CountOnEntry(lane, distance_mm, now_ms, lockout_ms) ==
  IF ~lane.sensorOk
    THEN [lane |-> lane, counted |-> FALSE]
    ELSE
      LET l1 == [lane EXCEPT !.lastDistance_mm = distance_mm] IN
      CASE l1.state = IDLE ->
             IF distance_mm < l1.threshold_mm
               THEN [lane |-> [l1 EXCEPT !.count = l1.count + 1,
                                         !.state = BALL_PRESENT],
                     counted |-> TRUE]
               ELSE [lane |-> l1, counted |-> FALSE]
        [] l1.state = BALL_PRESENT ->
             IF distance_mm > l1.clearThresh_mm
               THEN [lane |-> [l1 EXCEPT !.state = LOCKOUT,
                                         !.lockoutStart = now_ms],
                     counted |-> FALSE]
               ELSE [lane |-> l1, counted |-> FALSE]
        [] l1.state = LOCKOUT ->
             IF LockoutElapsed(now_ms, l1.lockoutStart, lockout_ms)
               THEN [lane |-> [l1 EXCEPT !.state = IDLE], counted |-> FALSE]
               ELSE [lane |-> l1, counted |-> FALSE]

ProcessLaneReading_RecordFirst(lane, distance_mm, now_ms, lockout_ms) ==
  LET l1 == [lane EXCEPT !.lastDistance_mm = distance_mm] IN
  IF ~lane.sensorOk
    THEN [lane |-> l1, counted |-> FALSE]
    ELSE
      CASE l1.state = IDLE ->
             IF distance_mm < l1.threshold_mm
               THEN [lane |-> [l1 EXCEPT !.state = BALL_PRESENT], counted |-> FALSE]
               ELSE [lane |-> l1, counted |-> FALSE]
        [] l1.state = BALL_PRESENT ->
             IF distance_mm > l1.clearThresh_mm
               THEN [lane |-> [l1 EXCEPT !.count = l1.count + 1,
                                         !.state = LOCKOUT,
                                         !.lockoutStart = now_ms],
                     counted |-> TRUE]
               ELSE [lane |-> l1, counted |-> FALSE]
        [] l1.state = LOCKOUT ->
             IF LockoutElapsed(now_ms, l1.lockoutStart, lockout_ms)
               THEN [lane |-> [l1 EXCEPT !.state = IDLE], counted |-> FALSE]
               ELSE [lane |-> l1, counted |-> FALSE]

ProcessLaneReading_NonStrict(lane, distance_mm, now_ms, lockout_ms) ==
  IF ~lane.sensorOk
    THEN [lane |-> lane, counted |-> FALSE]
    ELSE
      LET l1 == [lane EXCEPT !.lastDistance_mm = distance_mm] IN
      CASE l1.state = IDLE ->
             IF distance_mm <= l1.threshold_mm
               THEN [lane |-> [l1 EXCEPT !.state = BALL_PRESENT], counted |-> FALSE]
               ELSE [lane |-> l1, counted |-> FALSE]
        [] l1.state = BALL_PRESENT ->
             IF distance_mm >= l1.clearThresh_mm
               THEN [lane |-> [l1 EXCEPT !.count = l1.count + 1,
                                         !.state = LOCKOUT,
                                         !.lockoutStart = now_ms],
                     counted |-> TRUE]
               ELSE [lane |-> l1, counted |-> FALSE]
        [] l1.state = LOCKOUT ->
             IF LockoutElapsed(now_ms, l1.lockoutStart, lockout_ms)
               THEN [lane |-> [l1 EXCEPT !.state = IDLE], counted |-> FALSE]
               ELSE [lane |-> l1, counted |-> FALSE]

\* A variant whose lockout ends only on a reading that is clear of the ball
\* (a distance test in LOCKOUT).
ProcessLaneReading_LockoutNeedsClear(lane, distance_mm, now_ms, lockout_ms) ==
  IF ~lane.sensorOk
    THEN [lane |-> lane, counted |-> FALSE]
    ELSE
      LET l1 == [lane EXCEPT !.lastDistance_mm = distance_mm] IN
      CASE l1.state = IDLE ->
             IF distance_mm < l1.threshold_mm
               THEN [lane |-> [l1 EXCEPT !.state = BALL_PRESENT], counted |-> FALSE]
               ELSE [lane |-> l1, counted |-> FALSE]
        [] l1.state = BALL_PRESENT ->
             IF distance_mm > l1.clearThresh_mm
               THEN [lane |-> [l1 EXCEPT !.count = l1.count + 1,
                                         !.state = LOCKOUT,
                                         !.lockoutStart = now_ms],
                     counted |-> TRUE]
               ELSE [lane |-> l1, counted |-> FALSE]
        [] l1.state = LOCKOUT ->
             IF /\ LockoutElapsed(now_ms, l1.lockoutStart, lockout_ms)
                /\ distance_mm >= l1.threshold_mm
               THEN [lane |-> [l1 EXCEPT !.state = IDLE], counted |-> FALSE]
               ELSE [lane |-> l1, counted |-> FALSE]

\* A variant that records the distance only when the state changes.
ProcessLaneReading_RecordOnChange(lane, distance_mm, now_ms, lockout_ms) ==
  IF ~lane.sensorOk
    THEN [lane |-> lane, counted |-> FALSE]
    ELSE
      LET l1 == [lane EXCEPT !.lastDistance_mm = distance_mm] IN
      CASE lane.state = IDLE ->
             IF distance_mm < lane.threshold_mm
               THEN [lane |-> [l1 EXCEPT !.state = BALL_PRESENT], counted |-> FALSE]
               ELSE [lane |-> lane, counted |-> FALSE]
        [] lane.state = BALL_PRESENT ->
             IF distance_mm > lane.clearThresh_mm
               THEN [lane |-> [l1 EXCEPT !.count = l1.count + 1,
                                         !.state = LOCKOUT,
                                         !.lockoutStart = now_ms],
                     counted |-> TRUE]
               ELSE [lane |-> lane, counted |-> FALSE]
        [] lane.state = LOCKOUT ->
             IF LockoutElapsed(now_ms, lane.lockoutStart, lockout_ms)
               THEN [lane |-> [l1 EXCEPT !.state = IDLE], counted |-> FALSE]
               ELSE [lane |-> lane, counted |-> FALSE]

\* A variant whose LOCKOUT case falls through to the IDLE test when the
\* lockout has run out: the same call can end the lockout and arm the lane.
ProcessLaneReading_FallThrough(lane, distance_mm, now_ms, lockout_ms) ==
  IF ~lane.sensorOk
    THEN [lane |-> lane, counted |-> FALSE]
    ELSE
      LET l1 == [lane EXCEPT !.lastDistance_mm = distance_mm] IN
      CASE l1.state = IDLE ->
             IF distance_mm < l1.threshold_mm
               THEN [lane |-> [l1 EXCEPT !.state = BALL_PRESENT], counted |-> FALSE]
               ELSE [lane |-> l1, counted |-> FALSE]
        [] l1.state = BALL_PRESENT ->
             IF distance_mm > l1.clearThresh_mm
               THEN [lane |-> [l1 EXCEPT !.count = l1.count + 1,
                                         !.state = LOCKOUT,
                                         !.lockoutStart = now_ms],
                     counted |-> TRUE]
               ELSE [lane |-> l1, counted |-> FALSE]
        [] l1.state = LOCKOUT ->
             IF LockoutElapsed(now_ms, l1.lockoutStart, lockout_ms)
               THEN [lane |-> [l1 EXCEPT !.state = IF distance_mm < l1.threshold_mm
                                                     THEN BALL_PRESENT ELSE IDLE],
                     counted |-> FALSE]
               ELSE [lane |-> l1, counted |-> FALSE]

\* A variant without the return in the counting branch: the call falls
\* through to the final return false.
ProcessLaneReading_NoReturn(lane, distance_mm, now_ms, lockout_ms) ==
  IF ~lane.sensorOk
    THEN [lane |-> lane, counted |-> FALSE]
    ELSE
      LET l1 == [lane EXCEPT !.lastDistance_mm = distance_mm] IN
      CASE l1.state = IDLE ->
             IF distance_mm < l1.threshold_mm
               THEN [lane |-> [l1 EXCEPT !.state = BALL_PRESENT], counted |-> FALSE]
               ELSE [lane |-> l1, counted |-> FALSE]
        [] l1.state = BALL_PRESENT ->
             IF distance_mm > l1.clearThresh_mm
               THEN [lane |-> [l1 EXCEPT !.count = l1.count + 1,
                                         !.state = LOCKOUT,
                                         !.lockoutStart = now_ms],
                     counted |-> FALSE]
               ELSE [lane |-> l1, counted |-> FALSE]
        [] l1.state = LOCKOUT ->
             IF LockoutElapsed(now_ms, l1.lockoutStart, lockout_ms)
               THEN [lane |-> [l1 EXCEPT !.state = IDLE], counted |-> FALSE]
               ELSE [lane |-> l1, counted |-> FALSE]

\* The lane after the call and the value returned.
ProcessLaneReading(lane, distance_mm, now_ms, lockout_ms) ==
  IF ~lane.sensorOk
    THEN [lane |-> lane, counted |-> FALSE]
    ELSE
      LET l1 == [lane EXCEPT !.lastDistance_mm = distance_mm] IN
      CASE l1.state = IDLE ->
             IF distance_mm < l1.threshold_mm
               THEN [lane |-> [l1 EXCEPT !.state = BALL_PRESENT], counted |-> FALSE]
               ELSE [lane |-> l1, counted |-> FALSE]
        [] l1.state = BALL_PRESENT ->
             IF distance_mm > l1.clearThresh_mm
               THEN [lane |-> [l1 EXCEPT !.count = l1.count + 1,
                                         !.state = LOCKOUT,
                                         !.lockoutStart = now_ms],
                     counted |-> TRUE]
               ELSE [lane |-> l1, counted |-> FALSE]
        [] l1.state = LOCKOUT ->
             IF LockoutElapsed(now_ms, l1.lockoutStart, lockout_ms)
               THEN [lane |-> [l1 EXCEPT !.state = IDLE], counted |-> FALSE]
               ELSE [lane |-> l1, counted |-> FALSE]

(***************************************************************************)
(* calculateThresholds                                                     *)
(***************************************************************************)
\* A variant that adds the detection delta instead of subtracting it.
CalculateThresholds_AddDelta(lane, baseline_mm, detection_delta_mm, clear_hysteresis_mm) ==
  LET threshold == (baseline_mm + detection_delta_mm) % U16 IN
  [lane EXCEPT !.baseline_mm    = baseline_mm,
               !.threshold_mm   = threshold,
               !.clearThresh_mm = (threshold + clear_hysteresis_mm) % U16]

\* The operands are promoted to int; the assignment to a uint16_t member
\* keeps the result modulo U16.
CalculateThresholds(lane, baseline_mm, detection_delta_mm, clear_hysteresis_mm) ==
  LET threshold == (baseline_mm - detection_delta_mm) % U16 IN
  [lane EXCEPT !.baseline_mm    = baseline_mm,
               !.threshold_mm   = threshold,
               !.clearThresh_mm = (threshold + clear_hysteresis_mm) % U16]

(***************************************************************************)
(* resetLanes                                                              *)
(***************************************************************************)
\* A variant that zeroes the counts and leaves the states.
ResetLanes_CountsOnly(ls, num_lanes) ==
  [ lanes |-> [i \in DOMAIN ls |->
                 IF i < num_lanes THEN [ls[i] EXCEPT !.count = 0] ELSE ls[i]],
    totalCount |-> 0 ]

\* A variant that puts every lane back to a default-constructed Lane, keeping
\* only sensorOk.
ResetLanes_WholeLane(ls, num_lanes) ==
  [ lanes |-> [i \in DOMAIN ls |->
                 IF i < num_lanes
                   THEN [NewLane EXCEPT !.sensorOk = ls[i].sensorOk]
                   ELSE ls[i]],
    totalCount |-> 0 ]

\* lanes is a function on 0 .. num_lanes - 1 (the array); the result is the
\* array and the total after the call.
ResetLanes(ls, num_lanes) ==
  [ lanes |-> [i \in DOMAIN ls |->
                 IF i < num_lanes
                   THEN [ls[i] EXCEPT !.count = 0, !.state = IDLE]
                   ELSE ls[i]],
    totalCount |-> 0 ]

(***************************************************************************)
(* State                                                                   *)
(***************************************************************************)
VARIABLES
  lanes,       \* firmware: Lane lanes[NUM_LANES]
  totalCount,  \* firmware: uint32_t totalCount
  now,         \* firmware: the value millis() returns
  pc,          \* firmware: "setup", "calibrate" (inside setup()) or "loop"
  ch,          \* firmware: the lane loop() polls next
  lane,        \* library: the Lane object the calls of SpecLib/SpecCalc act on
  lockout_ms,  \* library: the lockout duration the caller passes on every call
  op,          \* the operation that ran last
  ret,         \* what the last processLaneReading call returned
  arg,         \* the arguments of processLaneReading, if it was the last operation
  carg,        \* the arguments of the last calculateThresholds call
  cal,         \* firmware: if calibrateBaselines() was the last operation, for
               \* each lane the reads of its sensor (samples) and the lane's
               \* sensorOk when the call began (wasOk)
  cyc,         \* observer: IDLE -> BALL_PRESENT -> LOCKOUT cycles of lane
  run,         \* observer: the calls on lane since its last counted call (calls:
               \* how many processLaneReading calls, counted up to 2)
  pair,        \* observer: the last two counted calls on lane
  script       \* observer: how far the calls so far follow Scenario

fwVars == <<lanes, totalCount, now, pc, ch>>

libVars == <<lane, lockout_ms, cyc, run, pair, script>>

callVars == <<op, ret, arg, carg, cal>>

vars == <<lanes, totalCount, now, pc, ch, lane, lockout_ms, op, ret, arg, carg, cal, cyc, run, pair, script>>

NoArg == [ch |-> 0, dist |-> 0, now |-> 0, lockout |-> 0]

NoCArg == [baseline |-> 0, delta |-> 0, hyst |-> 0]

NoCal == <<>>

NoPair == [has |-> FALSE, gap |-> 0, steady |-> FALSE, reset |-> FALSE, between |-> 0]

(***************************************************************************)
(* SpecLib: the library, call by call, on one Lane                         *)
(***************************************************************************)
\* The arguments the calls are made with.
Distances == {400, 420, 450, 460, 600}

Timestamps == {0, 10, 20, 30, 40, 100}

Lockouts == {30, LOCKOUT_MS}

LibBaselines == {500}

\* The sample sequence of the worked example: <<distance, timestamp>>.
Scenario ==
  << <<600, 0>>, <<600, 10>>, <<400, 20>>, <<400, 30>>, <<460, 40>>, <<460, 100>> >>

\* The lane the worked example starts from.
ScenarioStart(l) ==
  /\ l.sensorOk
  /\ l.threshold_mm = 420
  /\ l.clearThresh_mm = 450
  /\ l.state = IDLE
  /\ l.count = 0

InitObservers ==
  /\ cyc = [armed |-> FALSE, cycles |-> 0, trues |-> 0]
  /\ run = [has |-> FALSE, at |-> 0, last |-> 0, steady |-> FALSE, reset |-> FALSE,
            calls |-> 0]
  /\ pair = NoPair
  /\ script = 0

InitCall ==
  /\ op = "init"
  /\ ret = FALSE
  /\ arg = NoArg
  /\ carg = NoCArg
  /\ cal = NoCal

InitLib ==
  /\ lanes = [i \in {0} |-> NewLane]
  /\ totalCount = 0
  /\ now = 0
  /\ pc = "library"
  /\ ch = 0
  /\ lane = NewLane
  /\ lockout_ms \in Lockouts
  /\ InitCall
  /\ InitObservers

\* The cycle observer after a processLaneReading call took the lane from
\* state s0 to state s1 and returned counted.
CycAfter(c, s0, s1, counted) ==
  [ armed  |-> IF s0 = IDLE /\ s1 = BALL_PRESENT THEN TRUE
               ELSE IF s1 = BALL_PRESENT THEN c.armed
               ELSE FALSE,
    cycles |-> IF c.armed /\ s0 = BALL_PRESENT /\ s1 = LOCKOUT
                 THEN c.cycles + 1 ELSE c.cycles,
    trues  |-> IF counted THEN c.trues + 1 ELSE c.trues ]

\* processLaneReading(lane, d, t, lockout_ms)
LibProcess(d, t) ==
  LET r == ProcessLaneReading(lane, d, t, lockout_ms) IN
  /\ r.lane.count <= MaxCount
  /\ lane' = r.lane
  /\ op' = "process"
  /\ ret' = r.counted
  /\ arg' = [ch |-> 0, dist |-> d, now |-> t, lockout |-> lockout_ms]
  /\ cyc' = CycAfter(cyc, lane.state, r.lane.state, r.counted)
  /\ pair' = IF r.counted /\ run.has
               THEN [has |-> TRUE, gap |-> t - run.at,
                     steady |-> run.steady /\ t >= run.last,
                     reset |-> run.reset,
                     between |-> run.calls]
               ELSE NoPair
  /\ run' = IF r.counted
              THEN [has |-> TRUE, at |-> t, last |-> t, steady |-> TRUE, reset |-> FALSE,
                    calls |-> 0]
              ELSE [run EXCEPT !.last = t, !.steady = run.steady /\ t >= run.last,
                               !.calls = IF run.has /\ run.calls < 2
                                           THEN run.calls + 1 ELSE run.calls]
  /\ script' = IF /\ script >= 0
                  /\ script < Len(Scenario)
                  /\ <<d, t>> = Scenario[script + 1]
                  /\ lockout_ms = LOCKOUT_MS
                  /\ (script = 0 => ScenarioStart(lane))
                 THEN script + 1 ELSE -1
  /\ UNCHANGED <<fwVars, lockout_ms, carg, cal>>

\* calculateThresholds(lane, b, DETECTION_DELTA_MM, CLEAR_HYSTERESIS_MM)
LibCalculate(b) ==
  /\ lane' = CalculateThresholds(lane, b, DETECTION_DELTA_MM, CLEAR_HYSTERESIS_MM)
  /\ op' = "calculate"
  /\ ret' = FALSE
  /\ carg' = [baseline |-> b, delta |-> DETECTION_DELTA_MM, hyst |-> CLEAR_HYSTERESIS_MM]
  /\ arg' = NoArg
  /\ pair' = NoPair
  /\ script' = IF script = 0 THEN 0 ELSE -1
  /\ UNCHANGED <<fwVars, lockout_ms, cal, cyc, run>>

\* lane.sensorOk = ok, written by the owner of the Lane
LibSetSensorOk(ok) ==
  /\ lane' = [lane EXCEPT !.sensorOk = ok]
  /\ op' = "sensorOk"
  /\ ret' = FALSE
  /\ arg' = NoArg
  /\ pair' = NoPair
  /\ script' = IF script = 0 THEN 0 ELSE -1
  /\ UNCHANGED <<fwVars, lockout_ms, carg, cal, cyc, run>>

\* resetLanes(&lane, 1, totalCount)
LibReset ==
  LET r == ResetLanes([i \in {0} |-> lane], 1) IN
  /\ lane' = r.lanes[0]
  /\ totalCount' = r.totalCount
  /\ op' = "reset"
  /\ ret' = FALSE
  /\ cyc' = [armed |-> FALSE, cycles |-> 0, trues |-> 0]
  /\ run' = [run EXCEPT !.reset = run.has]
  /\ arg' = NoArg
  /\ pair' = NoPair
  /\ script' = IF script = 0 THEN 0 ELSE -1
  /\ UNCHANGED <<lanes, now, pc, ch, lockout_ms, carg, cal>>

NextLib ==
  \/ \E d \in Distances, t \in Timestamps : LibProcess(d, t)
  \/ \E b \in LibBaselines : LibCalculate(b)
  \/ \E ok \in BOOLEAN : LibSetSensorOk(ok)
  \/ LibReset

SpecLib == InitLib /\ [][NextLib]_vars

(***************************************************************************)
(* Spec: the firmware (main.cpp)                                           *)
(***************************************************************************)
Lanes == 0 .. NumLanes - 1

\* What one sensor read gives: readRangeContinuousMillimeters() and
\* timeoutOccurred().  A read that timed out returns 65535.
Read(d) == [timeout |-> FALSE, d |-> d]

TimedOut == [timeout |-> TRUE, d |-> 65535]

\* The reads of the polling loop.
PollReads == {TimedOut, Read(400), Read(460)}

\* The CALIB_SAMPLES reads of one lane's calibration: k reads x, then reads y.
CalibRun(k, x, y) == [s \in 1 .. CALIB_SAMPLES |-> IF s <= k THEN x ELSE y]

CalibRuns ==
  { CalibRun(0, TimedOut, TimedOut),
    CalibRun(0, TimedOut, Read(8000)),
    CalibRun(10, TimedOut, Read(8190)),
    CalibRun(0, TimedOut, Read(500)),
    CalibRun(19, TimedOut, Read(500)),
    CalibRun(10, Read(8000), Read(500)),
    CalibRun(10, Read(480), Read(520)),
    CalibRun(19, Read(500), Read(519)) }

\* initSensors(): ok[c] is what tof[c].init() returns.
InitSensors(ls, ok) ==
  [c \in DOMAIN ls |-> [ls[c] EXCEPT !.sensorOk = ok[c]]]

\* A variant that lets a read of exactly 8000 into the sum.
RECURSIVE CalibSum_CeilingIncluded(_, _)
CalibSum_CeilingIncluded(samples, n) ==
  IF n = 0 THEN [sum |-> 0, good |-> 0]
  ELSE LET acc == CalibSum_CeilingIncluded(samples, n - 1)
           r   == samples[n]
       IN  IF ~r.timeout /\ r.d <= 8000
             THEN [sum |-> acc.sum + r.d, good |-> acc.good + 1]
             ELSE acc

\* The sum and the number of the valid reads among the first n of a run.
RECURSIVE CalibSum(_, _)
CalibSum(samples, n) ==
  IF n = 0 THEN [sum |-> 0, good |-> 0]
  ELSE LET acc == CalibSum(samples, n - 1)
           r   == samples[n]
       IN  IF ~r.timeout /\ r.d < 8000
             THEN [sum |-> acc.sum + r.d, good |-> acc.good + 1]
             ELSE acc

\* The reads of a run that calibrateBaselines() adds to sum and counts in
\* good: no timeout and a distance below 8000.
ValidSamples(samples) ==
  {s \in DOMAIN samples : ~samples[s].timeout /\ samples[s].d < 8000}

\* A variant that commits thresholds from a zero baseline when no read was
\* valid.
CalibrateLane_WriteOnFailure(l, samples) ==
  IF ~l.sensorOk THEN l
  ELSE LET acc == CalibSum(samples, CALIB_SAMPLES) IN
       IF acc.good > 0
         THEN CalculateThresholds(l, (acc.sum \div acc.good) % U16,
                                  DETECTION_DELTA_MM, CLEAR_HYSTERESIS_MM)
         ELSE [CalculateThresholds(l, 0, DETECTION_DELTA_MM, CLEAR_HYSTERESIS_MM)
                 EXCEPT !.sensorOk = FALSE]

\* One iteration of the loop over the lanes in calibrateBaselines().
CalibrateLane(l, samples) ==
  IF ~l.sensorOk THEN l
  ELSE LET acc == CalibSum(samples, CALIB_SAMPLES) IN
       IF acc.good > 0
         THEN CalculateThresholds(l, (acc.sum \div acc.good) % U16,
                                  DETECTION_DELTA_MM, CLEAR_HYSTERESIS_MM)
         ELSE [l EXCEPT !.sensorOk = FALSE]

\* calibrateBaselines(): runs[c] is what lane c's sensor reads.
CalibrateBaselines(ls, runs) ==
  [c \in DOMAIN ls |-> CalibrateLane(ls[c], runs[c])]

\* A variant of updateLane that forgets totalCount++.
UpdateLane_NoTotal(ls, total, c, r, t) ==
  IF ~ls[c].sensorOk \/ r.timeout
    THEN [lanes |-> ls, totalCount |-> total, counted |-> FALSE]
    ELSE LET p == ProcessLaneReading(ls[c], r.d, t, LOCKOUT_MS) IN
         [lanes |-> [ls EXCEPT ![c] = p.lane], totalCount |-> total,
          counted |-> p.counted]

\* A variant that hands the read to every lane instead of lane c alone.
UpdateLane_EveryLane(ls, total, c, r, t) ==
  IF ~ls[c].sensorOk \/ r.timeout
    THEN [lanes |-> ls, totalCount |-> total, counted |-> FALSE]
    ELSE LET p == ProcessLaneReading(ls[c], r.d, t, LOCKOUT_MS) IN
         [lanes |-> [j \in DOMAIN ls |->
                       ProcessLaneReading(ls[j], r.d, t, LOCKOUT_MS).lane],
          totalCount |-> IF p.counted THEN total + 1 ELSE total,
          counted |-> p.counted]

\* A variant that treats a timed-out read as a sample: the 65535 the sensor
\* driver returns goes to processLaneReading.
UpdateLane_ProcessTimeout(ls, total, c, r, t) ==
  IF ~ls[c].sensorOk
    THEN [lanes |-> ls, totalCount |-> total, counted |-> FALSE]
    ELSE LET p == ProcessLaneReading(ls[c], r.d, t, LOCKOUT_MS) IN
         [lanes |-> [ls EXCEPT ![c] = p.lane],
          totalCount |-> IF p.counted THEN total + 1 ELSE total,
          counted |-> p.counted]

\* A variant in which a cycle without a sample still ends a lockout that has
\* run out.
UpdateLane_TimeoutExpires(ls, total, c, r, t) ==
  IF ~ls[c].sensorOk
    THEN [lanes |-> ls, totalCount |-> total, counted |-> FALSE]
  ELSE IF r.timeout
    THEN [lanes |-> IF /\ ls[c].state = LOCKOUT
                       /\ LockoutElapsed(t, ls[c].lockoutStart, LOCKOUT_MS)
                      THEN [ls EXCEPT ![c].state = IDLE] ELSE ls,
          totalCount |-> total, counted |-> FALSE]
  ELSE LET p == ProcessLaneReading(ls[c], r.d, t, LOCKOUT_MS) IN
       [lanes |-> [ls EXCEPT ![c] = p.lane],
        totalCount |-> IF p.counted THEN total + 1 ELSE total,
        counted |-> p.counted]

\* updateLane(c) with read r at millis() = t: the lanes and the total after
\* it, and whether it counted.
UpdateLane(ls, total, c, r, t) ==
  IF ~ls[c].sensorOk
    THEN [lanes |-> ls, totalCount |-> total, counted |-> FALSE]
  ELSE IF r.timeout
    THEN [lanes |-> ls, totalCount |-> total, counted |-> FALSE]
  ELSE LET p == ProcessLaneReading(ls[c], r.d, t, LOCKOUT_MS) IN
       [lanes |-> [ls EXCEPT ![c] = p.lane],
        totalCount |-> IF p.counted THEN total + 1 ELSE total,
        counted |-> p.counted]

Init ==
  /\ lanes = [c \in Lanes |-> NewLane]
  /\ totalCount = 0
  /\ now = 0
  /\ pc = "setup"
  /\ ch = 0
  /\ lane = NewLane
  /\ lockout_ms = LOCKOUT_MS
  /\ InitCall
  /\ InitObservers

\* millis() advances.
Tick ==
  /\ now < MaxNow
  /\ now' = now + TickMs
  /\ op' = "tick"
  /\ ret' = FALSE
  /\ arg' = NoArg
  /\ cal' = NoCal
  /\ UNCHANGED <<lanes, totalCount, pc, ch, libVars, carg>>

\* setup(): initSensors()
SetupInitSensors(ok) ==
  /\ pc = "setup"
  /\ lanes' = InitSensors(lanes, ok)
  /\ pc' = "calibrate"
  /\ op' = "initSensors"
  /\ ret' = FALSE
  /\ arg' = NoArg
  /\ UNCHANGED <<totalCount, now, ch, libVars, carg, cal>>

\* setup(): calibrateBaselines()
SetupCalibrate(runs) ==
  /\ pc = "calibrate"
  /\ lanes' = CalibrateBaselines(lanes, runs)
  /\ pc' = "loop"
  /\ op' = "calibrate"
  /\ ret' = FALSE
  /\ arg' = NoArg
  /\ cal' = [c \in Lanes |-> [samples |-> runs[c], wasOk |-> lanes[c].sensorOk]]
  /\ UNCHANGED <<totalCount, now, ch, libVars, carg>>

\* loop(): server.handleWebSocket() delivers a "reset" message to
\* onWsMessage, before the lanes are polled.
OnWsMessageReset ==
  LET r == ResetLanes(lanes, NumLanes) IN
  /\ pc = "loop"
  /\ ch = 0
  /\ lanes' = r.lanes
  /\ totalCount' = r.totalCount
  /\ op' = "reset"
  /\ ret' = FALSE
  /\ arg' = NoArg
  /\ cal' = NoCal
  /\ UNCHANGED <<now, pc, ch, libVars, carg>>

\* loop(): updateLane(ch), the next iteration of the polling loop.
PollLane(r) ==
  LET u == UpdateLane(lanes, totalCount, ch, r, now) IN
  /\ pc = "loop"
  /\ u.lanes[ch].count <= MaxCount
  /\ lanes' = u.lanes
  /\ totalCount' = u.totalCount
  /\ ch' = (ch + 1) % NumLanes
  /\ op' = IF ~lanes[ch].sensorOk THEN "skip"
           ELSE IF r.timeout THEN "timeout" ELSE "process"
  /\ ret' = u.counted
  /\ arg' = IF lanes[ch].sensorOk /\ ~r.timeout
              THEN [ch |-> ch, dist |-> r.d, now |-> now, lockout |-> LOCKOUT_MS]
              ELSE [NoArg EXCEPT !.ch = ch]
  /\ cal' = NoCal
  /\ UNCHANGED <<now, pc, libVars, carg>>

Next ==
  \/ Tick
  \/ \E ok \in [Lanes -> BOOLEAN] : SetupInitSensors(ok)
  \/ \E runs \in [Lanes -> CalibRuns] : SetupCalibrate(runs)
  \/ OnWsMessageReset
  \/ \E r \in PollReads : PollLane(r)

Spec == Init /\ [][Next]_vars

\* updateLane(c) in a cycle in which lane c's read does not time out.
PollSample(c) ==
  /\ ch = c
  /\ \E r \in PollReads : ~r.timeout /\ PollLane(r)

\* The firmware under the conditions a lockout needs to end: millis() keeps
\* advancing (up to the bound of the model), loop() keeps running, and every
\* lane's turn in the polling loop comes with a sample again and again (for
\* an unhealthy lane the turn is the early return of updateLane).
FairSpec ==
  /\ Spec
  /\ WF_vars(Tick)
  /\ \A c \in Lanes : SF_vars(PollSample(c))

(***************************************************************************)
(* SpecCalc: calculateThresholds over the uint16_t range                   *)
(***************************************************************************)
CalcBaselines == {0, 1, 60, 80, 500, 65505, 65535}

CalcDeltas == {0, 1, 80, 500, 65535}

CalcHysts == {0, 1, 30, 65535}

\* calculateThresholds(lane, b, d, h)
CalcApply(b, d, h) ==
  /\ lane' = CalculateThresholds(lane, b, d, h)
  /\ op' = "calculate"
  /\ ret' = FALSE
  /\ carg' = [baseline |-> b, delta |-> d, hyst |-> h]
  /\ arg' = NoArg
  /\ UNCHANGED <<fwVars, lockout_ms, cal, cyc, run, pair, script>>

NextCalc ==
  \E b \in CalcBaselines, d \in CalcDeltas, h \in CalcHysts : CalcApply(b, d, h)

SpecCalc == InitLib /\ [][NextCalc]_vars

(***************************************************************************)
(* Properties of processLaneReading and resetLanes, under SpecLib          *)
(***************************************************************************)
\* C1: on a healthy lane a processLaneReading call returns true if and only
\* if that call moves the lane from BALL_PRESENT to LOCKOUT; the number of
\* true results since the last reset, the lane's count and the number of
\* completed IDLE -> BALL_PRESENT -> LOCKOUT cycles are equal; and the worked
\* example (Scenario, thresholds 420/450, lockout 60) goes IDLE, IDLE,
\* BALL_PRESENT, BALL_PRESENT, LOCKOUT, IDLE with exactly one true result, on
\* the fifth call (t = 40).
C1_CountedIffCycle ==
  /\ [][(op' = "process" /\ lane.sensorOk) =>
          (ret' <=> (lane.state = BALL_PRESENT /\ lane'.state = LOCKOUT))]_vars
  /\ [](cyc.trues = cyc.cycles /\ cyc.cycles = lane.count)
  /\ [](script >= 1 =>
          /\ ret <=> (script = 5)
          /\ cyc.trues = (IF script >= 5 THEN 1 ELSE 0)
          /\ lane.count = cyc.trues
          /\ lane.state = <<IDLE, IDLE, BALL_PRESENT, BALL_PRESENT, LOCKOUT, IDLE>>[script]
          /\ (script >= 5 => lane.lockoutStart = 40))

\* The worked example ran to its end: one cycle completed.
C1_Witness ==
  /\ script = Len(Scenario)
  /\ cyc.cycles = 1
  /\ op = "process"

\* C2 (as claimed): two counted calls, with non-decreasing timestamps and the
\* same lockout in between (resetLanes calls allowed), are at least
\* lockout_ms apart.
C2_Original ==
  (pair.has /\ pair.steady) => pair.gap >= lockout_ms

\* C2 (amended): two counted calls with no resetLanes call between them, with
\* non-decreasing timestamps and the same lockout in between, are at least
\* lockout_ms apart.
C2_LockoutSeparation ==
  (pair.has /\ pair.steady /\ ~pair.reset) => pair.gap >= lockout_ms

\* Two counted calls, in time order, with no reset between them.
C2_Witness ==
  /\ pair.has
  /\ pair.steady
  /\ ~pair.reset
  /\ ret
  /\ lane.count = 2

\* C6: processLaneReading on a lane with sensorOk false returns false and
\* leaves every field of the lane as it was, whatever the distance, the
\* timestamp, the lockout and the lane's state.
C6_UnhealthyNoOp ==
  [][(op' = "process" /\ ~lane.sensorOk) => (lane' = lane /\ ret' = FALSE)]_vars

\* An unhealthy lane in LOCKOUT was processed with a distance other than the
\* one it last recorded, at a time the lockout would have ended.
C6_Witness ==
  /\ op = "process"
  /\ ~lane.sensorOk
  /\ lane.state = LOCKOUT
  /\ arg.dist # lane.lastDistance_mm
  /\ arg.now - lane.lockoutStart >= lockout_ms

\* C7: threshold comparisons are strict.  A healthy lane in IDLE given a
\* distance >= threshold_mm stays in IDLE; a healthy lane in BALL_PRESENT
\* given a distance <= clearThresh_mm stays in BALL_PRESENT, with no count.
C7_StrictThresholds ==
  [][(op' = "process" /\ lane.sensorOk) =>
       /\ (lane.state = IDLE /\ arg'.dist >= lane.threshold_mm) =>
            lane'.state = IDLE
       /\ (lane.state = BALL_PRESENT /\ arg'.dist <= lane.clearThresh_mm) =>
            (lane'.state = BALL_PRESENT /\ ~ret' /\ lane'.count = lane.count)]_vars

\* A calibrated lane in BALL_PRESENT was given distance = clearThresh_mm and
\* is still in BALL_PRESENT.
C7_Witness ==
  /\ op = "process"
  /\ lane.sensorOk
  /\ lane.state = BALL_PRESENT
  /\ arg.dist = lane.clearThresh_mm
  /\ lane.clearThresh_mm > 0

(***************************************************************************)
(* Properties of the firmware, under Spec                                  *)
(***************************************************************************)
\* The sum of the counts of lanes 0 .. n - 1.
RECURSIVE SumCounts(_, _)
SumCounts(ls, n) ==
  IF n = 0 THEN 0 ELSE SumCounts(ls, n - 1) + ls[n - 1].count

\* C3: whenever no updateLane or resetLanes call is in progress, totalCount
\* is the sum of the lanes' counts.
C3_TotalIsSum ==
  totalCount = SumCounts(lanes, NumLanes)

\* Every lane has counted once, the last of them in the call that just
\* returned.
C3_Witness ==
  /\ op = "process"
  /\ ret
  /\ \A c \in Lanes : lanes[c].count = 1
  /\ totalCount = NumLanes

\* C4: after resetLanes, totalCount is 0 and every lane, healthy or not, has
\* count 0 and state IDLE.
C4_ResetClears ==
  op = "reset" =>
    /\ totalCount = 0
    /\ \A c \in Lanes : lanes[c].count = 0 /\ lanes[c].state = IDLE

\* The same for the one lane of SpecLib, where a lane can be unhealthy while
\* in BALL_PRESENT or LOCKOUT (holds under SpecLib).
ResetClearsLane ==
  op = "reset" => (totalCount = 0 /\ lane.count = 0 /\ lane.state = IDLE)

\* A reset of an unhealthy lane whose lockout had not run out (SpecLib).
ResetClearsLaneSeen ==
  /\ op = "reset"
  /\ ~lane.sensorOk
  /\ run.has
  /\ run.last - run.at < lockout_ms

\* A reset has just run with one lane unhealthy and another that counted at
\* the current millis() > 0, so that it was in LOCKOUT when the reset came.
C4_Witness ==
  /\ op = "reset"
  /\ now > 0
  /\ \E c \in Lanes : ~lanes[c].sensorOk
  /\ \E c \in Lanes : lanes[c].sensorOk /\ lanes[c].lockoutStart = now

\* C5: outside a resetLanes step no lane's count and not totalCount ever
\* decreases; an updateLane step that calls processLaneReading raises the
\* lane's count by 1 if the call returns true and leaves it as it was if the
\* call returns false.
C5_CountMonotone ==
  [][/\ op' # "reset" =>
          /\ totalCount' >= totalCount
          /\ \A c \in Lanes : lanes'[c].count >= lanes[c].count
     /\ op' = "process" =>
          lanes'[ch].count = lanes[ch].count + (IF ret' THEN 1 ELSE 0)]_vars

\* A lane's second count.
C5_Witness ==
  /\ op = "process"
  /\ ret
  /\ lanes[arg.ch].count = 2

C9_SaturatingSubtraction ==
  (op = "calculate" /\ carg.delta >= carg.baseline) => lane.threshold_mm = 0

\* C10: after calculateThresholds with clear_hysteresis > 0,
\* clearThresh_mm > threshold_mm.
C10_DeadBand ==
  (op = "calculate" /\ carg.hyst > 0) => lane.clearThresh_mm > lane.threshold_mm

(***************************************************************************)
(* Properties of calibration, under Spec                                   *)
(***************************************************************************)
\* C11: a calibration of a lane in which no read is valid (every read a
\* timeout or at or above 8000) leaves the lane with sensorOk false and with
\* the baseline_mm, threshold_mm and clearThresh_mm it had before; and a lane
\* that was healthy when calibrateBaselines() began is unhealthy after it
\* only if none of its reads was valid.  The same holds of the loop body
\* applied again to any lane the firmware reaches (a lane whose thresholds
\* are already written).
C11_CalibrationFails ==
  [][op' = "calibrate" =>
       \A c \in Lanes :
         /\ ValidSamples(cal'[c].samples) = {} =>
              /\ ~lanes'[c].sensorOk
              /\ lanes'[c].baseline_mm = lanes[c].baseline_mm
              /\ lanes'[c].threshold_mm = lanes[c].threshold_mm
              /\ lanes'[c].clearThresh_mm = lanes[c].clearThresh_mm
         /\ (lanes[c].sensorOk /\ ~lanes'[c].sensorOk) =>
              ValidSamples(cal'[c].samples) = {}]_vars
  /\ [](\A c \in Lanes, r \in CalibRuns :
          ValidSamples(r) = {} =>
            LET l == CalibrateLane(lanes[c], r) IN
            /\ ~l.sensorOk
            /\ l.baseline_mm = lanes[c].baseline_mm
            /\ l.threshold_mm = lanes[c].threshold_mm
            /\ l.clearThresh_mm = lanes[c].clearThresh_mm)

\* calibrateBaselines() has just failed a lane that initSensors() had found
\* healthy: its reads were timeouts and distances >= 8000, and another lane
\* was calibrated in the same call.
C11_Witness ==
  /\ op = "calibrate"
  /\ \E c \in Lanes :
       /\ cal[c].wasOk
       /\ ~lanes[c].sensorOk
       /\ ValidSamples(cal[c].samples) = {}
       /\ \E s \in DOMAIN cal[c].samples : ~cal[c].samples[s].timeout
       /\ \E s \in DOMAIN cal[c].samples : cal[c].samples[s].timeout
  /\ \E c \in Lanes : lanes[c].sensorOk /\ lanes[c].threshold_mm = 420

(***************************************************************************)
(* Properties of the lockout, under SpecLib                                *)
(***************************************************************************)
\* C12: a healthy lane in LOCKOUT processed with now_ms < lockoutStart stays
\* in LOCKOUT, and the call returns false and leaves count as it was (the
\* elapsed time is taken as 0 instead of wrapping modulo 2^32).
C12_StaleTimestampKeepsLockout ==
  [][(/\ op' = "process"
      /\ lane.sensorOk
      /\ lane.state = LOCKOUT
      /\ arg'.now < lane.lockoutStart) =>
       (lane'.state = LOCKOUT /\ ~ret' /\ lane'.count = lane.count)]_vars

(***************************************************************************)
(* Properties of the polling loop and of reset, under Spec                 *)
(***************************************************************************)
\* C13: an updateLane(ch) step changes no field of any other lane, whatever
\* the lanes' health and state and whether or not the read timed out; it
\* always hands the turn to the next lane; and the polled lane after the step
\* is what processLaneReading makes of that lane alone with the read, millis()
\* and LOCKOUT_MS (or the lane as it was, when it is unhealthy or the read
\* timed out).
C13_LaneIndependence ==
  [][op' \in {"process", "timeout", "skip"} =>
       /\ \A j \in Lanes \ {ch} : lanes'[j] = lanes[j]
       /\ ch' = (ch + 1) % NumLanes
       /\ lanes'[ch] =
            IF op' = "process"
              THEN ProcessLaneReading(lanes[ch], arg'.dist, arg'.now, LOCKOUT_MS).lane
              ELSE lanes[ch]
       /\ op' = "skip" <=> ~lanes[ch].sensorOk]_vars

\* A lane has just counted in a polling cycle in which the lane before it was
\* unhealthy, timed out or sat in LOCKOUT.
C13_Witness ==
  /\ op = "process"
  /\ ret
  /\ arg.ch > 0
  /\ lanes[arg.ch].state = LOCKOUT
  /\ LET j == arg.ch - 1 IN
       \/ ~lanes[j].sensorOk
       \/ lanes[j].state = LOCKOUT /\ lanes[j].lockoutStart < now

\* C14: resetLanes leaves every lane's baseline_mm, threshold_mm,
\* clearThresh_mm, sensorOk and lastDistance_mm as they were; of a lane it
\* writes count and state only (lockoutStart too stays as it was).
C14_ResetFrame ==
  [][op' = "reset" =>
       \A c \in Lanes :
         lanes'[c] = [lanes[c] EXCEPT !.count = lanes'[c].count,
                                      !.state = lanes'[c].state]]_vars

\* resetLanes has just run on a calibrated lane that had counted and recorded
\* a distance, next to an unhealthy lane.
C14_Witness ==
  /\ op = "reset"
  /\ \E c \in Lanes :
       /\ lanes[c].sensorOk
       /\ lanes[c].threshold_mm = 420
       /\ lanes[c].clearThresh_mm = 450
       /\ lanes[c].lastDistance_mm = 460
       /\ lanes[c].lockoutStart > 0
  /\ \E c \in Lanes : ~lanes[c].sensorOk

\* C15: after resetLanes every lane's lockoutStart is 0, its initial value.
C15_ResetClearsLockoutStart ==
  op = "reset" => \A c \in Lanes : lanes[c].lockoutStart = 0

(***************************************************************************)
(* Properties of start-up, under Spec                                      *)
(***************************************************************************)
\* C16: the lanes start with sensorOk false, state IDLE and every other field
\* 0; and after calibrateBaselines() every lane with at least one valid read
\* has sensorOk true and its thresholds written from its baseline, whether or
\* not it was healthy when the call began.
C16_CalibrationSetsHealthy ==
  /\ op = "init" =>
       \A c \in Lanes :
         /\ ~lanes[c].sensorOk
         /\ lanes[c].state = IDLE
         /\ lanes[c].baseline_mm = 0 /\ lanes[c].threshold_mm = 0
         /\ lanes[c].clearThresh_mm = 0 /\ lanes[c].count = 0
         /\ lanes[c].lockoutStart = 0 /\ lanes[c].lastDistance_mm = 0
  /\ op = "calibrate" =>
       \A c \in Lanes :
         ValidSamples(cal[c].samples) # {} =>
           /\ lanes[c].sensorOk
           /\ lanes[c].baseline_mm > 0
           /\ lanes[c].threshold_mm = lanes[c].baseline_mm - DETECTION_DELTA_MM
           /\ lanes[c].clearThresh_mm = lanes[c].threshold_mm + CLEAR_HYSTERESIS_MM

\* The sum of the distances of the reads of a run at the positions S.
RECURSIVE SumOfReads(_, _)
SumOfReads(samples, S) ==
  IF S = {} THEN 0
  ELSE LET s == CHOOSE x \in S : TRUE
       IN  samples[s].d + SumOfReads(samples, S \ {s})

\* C17: after calibrateBaselines() the baseline_mm of every lane it
\* calibrated with at least one valid read is the sum of the valid reads
\* divided (integer division) by their number, a read being valid iff it is
\* no timeout and strictly below 8000; the other reads count neither in the
\* sum nor in the divisor.
C17_BaselineIsMeanOfValid ==
  op = "calibrate" =>
    \A c \in Lanes :
      LET V == ValidSamples(cal[c].samples) IN
      (cal[c].wasOk /\ V # {}) =>
        /\ V = {s \in 1 .. CALIB_SAMPLES :
                  ~cal[c].samples[s].timeout /\ cal[c].samples[s].d < 8000}
        /\ lanes[c].baseline_mm = SumOfReads(cal[c].samples, V) \div Cardinality(V)

\* calibrateBaselines() has just calibrated one lane from a run in which half
\* of the reads were exactly 8000, and another from a run whose mean is not a
\* whole number (19 reads of 500 and one of 519).
C17_Witness ==
  /\ op = "calibrate"
  /\ \E c \in Lanes :
       /\ cal[c].wasOk
       /\ lanes[c].baseline_mm = 500
       /\ Cardinality(ValidSamples(cal[c].samples)) = 10
       /\ \E s \in 1 .. CALIB_SAMPLES : cal[c].samples[s] = Read(8000)
  /\ \E c \in Lanes :
       /\ cal[c].wasOk
       /\ lanes[c].baseline_mm = 500
       /\ SumOfReads(cal[c].samples, ValidSamples(cal[c].samples)) = 10019

(***************************************************************************)
(* Properties of processLaneReading, under SpecLib (continued)             *)
(***************************************************************************)
\* C18: a healthy lane in LOCKOUT processed with now_ms >= lockoutStart goes
\* to IDLE if and only if now_ms - lockoutStart >= lockout_ms, whatever the
\* distance (below threshold_mm and above clearThresh_mm included); the call
\* returns false and leaves count as it was.
C18_LockoutTimeGated ==
  [][(/\ op' = "process"
      /\ lane.sensorOk
      /\ lane.state = LOCKOUT
      /\ arg'.now >= lane.lockoutStart) =>
       /\ lane'.state = (IF arg'.now - lane.lockoutStart >= arg'.lockout
                           THEN IDLE ELSE LOCKOUT)
       /\ ~ret'
       /\ lane'.count = lane.count]_vars

\* The lockout of a calibrated lane has just ended on a call whose distance
\* was below threshold_mm, exactly lockout_ms after the count.
C18_Witness ==
  /\ op = "process"
  /\ lane.sensorOk
  /\ lane.state = IDLE
  /\ lane.count > 0
  /\ run.has
  /\ arg.now = run.at + lockout_ms
  /\ lane.lockoutStart = run.at
  /\ lane.threshold_mm = 420
  /\ arg.dist < lane.threshold_mm

\* The lane is still in LOCKOUT after a call, later than the count but less
\* than lockout_ms after it, whose distance was above clearThresh_mm.
C18_StillLockedSeen ==
  /\ op = "process"
  /\ lane.sensorOk
  /\ lane.state = LOCKOUT
  /\ arg.now > lane.lockoutStart
  /\ arg.now - lane.lockoutStart < lockout_ms
  /\ arg.dist > lane.clearThresh_mm

\* C19: every processLaneReading call on a healthy lane leaves
\* lastDistance_mm equal to the distance passed in, in every state and
\* whether or not the state changes or the call counts; and the call does not
\* read lastDistance_mm: on a lane that differs from this one in
\* lastDistance_mm only, the same call returns the same value and leaves the
\* same lane.
C19_LastDistance ==
  [][(op' = "process" /\ lane.sensorOk) =>
       /\ lane'.lastDistance_mm = arg'.dist
       /\ \A x \in Distances \cup {0, 65535} :
            LET r == ProcessLaneReading([lane EXCEPT !.lastDistance_mm = x],
                                        arg'.dist, arg'.now, arg'.lockout)
            IN  r.counted = ret' /\ r.lane = lane']_vars

\* A call on a healthy lane has just replaced the recorded distance by
\* another one without changing the lane's state (BALL_PRESENT, a distance at
\* or below clearThresh_mm).
C19_Witness ==
  /\ op = "process"
  /\ lane.sensorOk
  /\ lane.state = BALL_PRESENT
  /\ cyc.armed
  /\ arg.dist = 450
  /\ lane.lastDistance_mm = 450
  /\ lane.count = 1

(***************************************************************************)
(* Properties of a timed-out read, under Spec                              *)
(***************************************************************************)
\* C20: an updateLane step on a healthy lane whose read timed out changes no
\* lane and not totalCount: the lane's state, count, lockoutStart,
\* lastDistance_mm and sensorOk are as before (it stays healthy), and nothing
\* is counted.
C20_TimeoutIsNoSample ==
  [][op' = "timeout" =>
       /\ lanes[ch].sensorOk
       /\ lanes' = lanes
       /\ lanes'[ch].sensorOk
       /\ totalCount' = totalCount
       /\ ~ret']_vars

\* The read of a healthy lane in BALL_PRESENT has just timed out (the 65535
\* the driver returns for it is above clearThresh_mm), and that of a lane in
\* LOCKOUT whose lockout had run out.
C20_Witness ==
  /\ op = "timeout"
  /\ lanes[arg.ch].sensorOk
  /\ \/ /\ lanes[arg.ch].state = BALL_PRESENT
        /\ TimedOut.d > lanes[arg.ch].clearThresh_mm
     \/ /\ lanes[arg.ch].state = LOCKOUT
        /\ now - lanes[arg.ch].lockoutStart >= LOCKOUT_MS

(***************************************************************************)
(* Properties of the lockout in the firmware, under FairSpec               *)
(***************************************************************************)
\* Lane c is in LOCKOUT and the clock of the model, which stops at MaxNow,
\* gets as far as lockoutStart + LOCKOUT_MS.
LockedWithTimeLeft(c) ==
  /\ lanes[c].state = LOCKOUT
  /\ lanes[c].lockoutStart + LOCKOUT_MS <= MaxNow

\* C21: a lane in LOCKOUT leaves it only in a step that calls
\* processLaneReading on that lane, or in resetLanes, and then for IDLE:
\* cycles in which the lane gets no sample (its read timed out) and the
\* passing of time leave it in LOCKOUT, however long ago the lockout began.
\* And when the lane's samples keep arriving and millis() advances past
\* lockoutStart + LOCKOUT_MS, a lane in LOCKOUT is eventually in IDLE again:
\* no lane is in LOCKOUT from some point on for ever (it is out of LOCKOUT
\* again and again, and by the first conjunct it leaves LOCKOUT for IDLE).
C21_LockoutEndsInCall ==
  /\ [][\A c \in Lanes :
          (lanes[c].state = LOCKOUT /\ lanes'[c].state # LOCKOUT) =>
            /\ lanes'[c].state = IDLE
            /\ \/ op' = "reset"
               \/ op' = "process" /\ arg'.ch = c]_vars
  /\ \A c \in Lanes : []<>(~LockedWithTimeLeft(c))

\* A lane's read has just timed out while the lane was in LOCKOUT, two
\* lockout durations or more after the lockout began: it is still in LOCKOUT.
C21_Witness ==
  /\ op = "timeout"
  /\ lanes[arg.ch].state = LOCKOUT
  /\ lanes[arg.ch].lockoutStart > 0
  /\ now - lanes[arg.ch].lockoutStart >= LOCKOUT_MS
  /\ now = MaxNow

(***************************************************************************)
(* One transition per call, under SpecLib                                  *)
(***************************************************************************)
\* What one processLaneReading call may do to a lane l0, given the lane l1 it
\* leaves and the value it returns: stay in the state, or take one of IDLE ->
\* BALL_PRESENT, BALL_PRESENT -> LOCKOUT, LOCKOUT -> IDLE; and count (return
\* true, count + 1) on BALL_PRESENT -> LOCKOUT only.
OneTransition(l0, l1, counted) ==
  /\ \/ l1.state = l0.state
     \/ l0.state = IDLE /\ l1.state = BALL_PRESENT
     \/ l0.state = BALL_PRESENT /\ l1.state = LOCKOUT
     \/ l0.state = LOCKOUT /\ l1.state = IDLE
  /\ counted => (l0.state = BALL_PRESENT /\ l1.state = LOCKOUT)
  /\ l1.count = l0.count + (IF counted THEN 1 ELSE 0)

\* C22: every processLaneReading call makes at most one transition: the call
\* that ends LOCKOUT leaves the lane in IDLE even when its distance is below
\* threshold_mm, and the call that arms the lane returns false and does not
\* count even when its distance is above clearThresh_mm (which takes
\* thresholds with clearThresh_mm < threshold_mm, as calculateThresholds
\* gives for a baseline of 60: the second conjunct runs every call on the
\* lane with those thresholds).  Hence between two counted calls on the lane
\* with no resetLanes call between them there are at least two other
\* processLaneReading calls.
C22_OneTransitionPerCall ==
  /\ [][op' = "process" => OneTransition(lane, lane', ret')]_vars
  /\ [](\A d \in Distances, t \in Timestamps, s \in LaneState :
          LET l == CalculateThresholds([lane EXCEPT !.state = s, !.sensorOk = TRUE],
                                       60, DETECTION_DELTA_MM, CLEAR_HYSTERESIS_MM)
              r == ProcessLaneReading(l, d, t, lockout_ms)
          IN  /\ l.clearThresh_mm < l.threshold_mm
              /\ OneTransition(l, r.lane, r.counted)
              /\ s = IDLE => (r.lane.state = BALL_PRESENT /\ ~r.counted))
  /\ []((pair.has /\ ~pair.reset) => pair.between >= 2)

\* The lane has just counted for the second time with exactly two calls
\* since the first count: one that ended the lockout and one that armed the
\* lane.
C22_Witness ==
  /\ op = "process"
  /\ ret
  /\ pair.has
  /\ ~pair.reset
  /\ pair.between = 2
  /\ lane.count = 2

\* With a resetLanes call in between, one call between two counted calls is
\* enough (the reset takes the lane out of LOCKOUT).
C22_ResetShortensSeen ==
  /\ pair.has
  /\ pair.reset
  /\ pair.between = 1

====
